---- MODULE Spec2Model ----
(***************************************************************************)
(* Model of upload_np.py: the EucFACE neutron-probe upload script.         *)
(* One run of the script is: read the API token, make sure the three       *)
(* folders exist, open the log, then loop over the listing of Data and     *)
(* drive every entry through backup, rename, conversion, the two uploads   *)
(* and the cleanup.  File names are sequences of one-character strings so  *)
(* that the slicing, splitting and replacing the script does on them is    *)
(* modelled by what it does.                                               *)
(***************************************************************************)
EXTENDS Integers, Sequences, FiniteSets, TLC

VARIABLES
    run,          \* number of runs of the script started so far
    pc,           \* position of the current run in the script
    api_token,    \* os.environ['HIEV_API_KEY'] as read by the current run
    dataDir,      \* Data folder: file name -> content
    renamedDir,   \* Renamed folder: file name -> content
    backupsDir,   \* Backups folder: file name -> content
    log,          \* log.txt, appended to by every run
    todo,         \* entries of os.listdir(data_dir) the loop has not reached
    file,         \* loop variable `file`
    file_counter, \* file_counter
    metadata_r,   \* per-file fields of the module-level dict metadata_r
    metadata_l1,  \* per-file fields of the module-level dict metadata_l1
    calls         \* history of the external calls made (copy, convert, upload, remove)

vars == <<run, pc, api_token, dataDir, renamedDir, backupsDir, log, todo, file,
          file_counter, metadata_r, metadata_l1, calls>>

\* ---------------------------------------------------------------- bounds
MaxRuns == 2
MaxFiles == 2

\* ------------------------------------------------- python string helpers
Min(a, b) == IF a < b THEN a ELSE b

\* s[a:b] for 0 <= a <= b: out-of-range offsets are clamped, never an error
Slice(s, a, b) == SubSeq(s, Min(a, Len(s)) + 1, Min(b, Len(s)))

\* s.startswith(p)
StartsWith(s, p) == Len(s) >= Len(p) /\ SubSeq(s, 1, Len(p)) = p

\* s.split(c) for a one-character separator c
RECURSIVE SplitFrom(_, _, _, _)
SplitFrom(s, c, i, cur) ==
    IF i > Len(s) THEN <<cur>>
    ELSE IF s[i] = c THEN <<cur>> \o SplitFrom(s, c, i + 1, <<>>)
    ELSE SplitFrom(s, c, i + 1, Append(cur, s[i]))

Split(s, c) == SplitFrom(s, c, 1, <<>>)

\* s.replace(old, new): every non-overlapping occurrence, leftmost first
RECURSIVE ReplaceFrom(_, _, _, _)
ReplaceFrom(s, old, new, i) ==
    IF i > Len(s) THEN <<>>
    ELSE IF i + Len(old) - 1 <= Len(s) /\ SubSeq(s, i, i + Len(old) - 1) = old
         THEN new \o ReplaceFrom(s, old, new, i + Len(old))
         ELSE <<s[i]>> \o ReplaceFrom(s, old, new, i + 1)

Replace(s, old, new) == ReplaceFrom(s, old, new, 1)

\* ------------------------------------------------------ string constants
R_PREFIX == <<"F","A","C","E","_","A","U","T","O","_","R","A","_",
              "N","E","U","T","R","O","N","_","R","_">>
TXT_EXT == <<".","t","x","t">>
CSV_EXT == <<".","c","s","v">>
R_MARK == <<"_","R","_">>
L1_MARK == <<"_","L","1","_">>
DAY_START == <<" ","0","0",":","0","0",":","0","0">>
DAY_END == <<" ","2","3",":","5","9",":","5","9">>
SCRIPT_ZIP == <<"F","A","C","E","_","S","C","R","I","P","T","_","N","E","U","T","R","O","N",
                "_","T","X","T","-","T","O","-","C","S","V",".","z","i","p">>

\* --------------------------------------------------------- filename codec
\* variant: day and month taken in the order of the raw name
rename_file_DayFirst(infile) ==
    LET day == Slice(infile, 2, 4)
        month == Slice(infile, 4, 6)
        year == <<"2","0">> \o Slice(infile, 6, 8)
    IN R_PREFIX \o year \o day \o month \o TXT_EXT

rename_file(infile) ==
    LET day == Slice(infile, 2, 4)
        month == Slice(infile, 4, 6)
        year == <<"2","0">> \o Slice(infile, 6, 8)
    IN R_PREFIX \o year \o month \o day \o TXT_EXT

rename_csv_file(infile) ==
    LET l1 == Replace(infile, R_MARK, L1_MARK)
    IN Replace(l1, TXT_EXT, CSV_EXT)

get_datetimes(infile) ==
    LET day == Slice(infile, 2, 4)
        month == Slice(infile, 4, 6)
        year == <<"2","0">> \o Slice(infile, 6, 8)
        date == year \o <<"-">> \o month \o <<"-">> \o day
    IN <<date \o DAY_START, date \o DAY_END>>

\* --------------------------------------------------------- the file names
\* The names a Data folder is filled from: two well-formed names, a name the
\* match test accepts with a trailing suffix (it renames like FA150518.TXT),
\* a name with another prefix, one with a lower-case extension, and one that
\* starts with FA and has no dot.
FA150518 == <<"F","A","1","5","0","5","1","8",".","T","X","T">>
FA010203 == <<"F","A","0","1","0","2","0","3",".","T","X","T">>
FA150518bak == <<"F","A","1","5","0","5","1","8",".","T","X","T",".","b","a","k">>
XY150518 == <<"X","Y","1","5","0","5","1","8",".","T","X","T">>
FA150518lower == <<"F","A","1","5","0","5","1","8",".","t","x","t">>
FANOTES == <<"F","A","N","O","T","E","S">>

Names == {FA150518, FA010203, FA150518bak, XY150518, FA150518lower, FANOTES}

\* content of a file: where it was copied from and the format it is in
Content(f, fmt) == [origin |-> f, fmt |-> fmt]

Exists(dir, f) == f \in DOMAIN dir
WriteFile(dir, f, c) == [g \in (DOMAIN dir) \cup {f} |-> IF g = f THEN c ELSE dir[g]]
RemoveFile(dir, f) == [g \in (DOMAIN dir) \ {f} |-> dir[g]]
EmptyDir == [g \in {} |-> Content(g, "txt")]

\* one line of log.txt: its kind and the name or number it quotes, and the run
\* that wrote it
LineOf(r, kind, arg) == [run |-> r, kind |-> kind, arg |-> arg]
Line(kind, arg) == LineOf(run, kind, arg)

\* one external call: op is copy_backup, copy_renamed, copy_l1, convert,
\* upload, rm_data, rm_renamed or rm_l1
NoMeta == [type |-> "none"]
Call(op, path, meta, ok) ==
    [op |-> op, run |-> run, cand |-> file, path |-> path, meta |-> meta, ok |-> ok]

\* the per-file fields of the two metadata dicts as the module sets them up
Unset == <<>>
metadata_r_base == [type |-> "RAW", start_time |-> Unset, end_time |-> Unset,
                    parent_filenames |-> Unset]
metadata_l1_base == [type |-> "PROCESSED", start_time |-> Unset, end_time |-> Unset,
                     parent_filenames |-> Unset]

renamed_file == rename_file(file)
l1_file == rename_csv_file(renamed_file)

Stopped == pc \in {"idle", "done", "crashed", "fatal"}

----------------------------------------------------------------------------
Init ==
    /\ run = 0
    /\ pc = "idle"
    /\ api_token = "unread"
    /\ \E S \in SUBSET Names :
          /\ Cardinality(S) <= MaxFiles
          /\ dataDir = [f \in S |-> Content(f, "txt")]
    /\ renamedDir = EmptyDir
    /\ backupsDir = EmptyDir
    /\ log = <<>>
    /\ todo = {}
    /\ file = <<>>
    /\ file_counter = 0
    /\ metadata_r = metadata_r_base
    /\ metadata_l1 = metadata_l1_base
    /\ calls = <<>>

\* variant: the token is read with os.environ.get and the run goes on without it
StartupNoToken_Continues ==
    /\ Stopped
    /\ run < MaxRuns
    /\ run' = run + 1
    /\ api_token' = "unset"
    /\ pc' = "loop"
    /\ log' = log \o <<LineOf(run + 1, "Begin", <<>>), LineOf(run + 1, "Looping", <<>>)>>
    /\ todo' = DOMAIN dataDir
    /\ file' = <<>>
    /\ file_counter' = 0
    /\ metadata_r' = metadata_r_base
    /\ metadata_l1' = metadata_l1_base
    /\ UNCHANGED <<dataDir, renamedDir, backupsDir, calls>>

\* api_token = os.environ['HIEV_API_KEY'] raises KeyError: the script ends there
StartupNoToken ==
    /\ Stopped
    /\ run < MaxRuns
    /\ run' = run + 1
    /\ api_token' = "unset"
    /\ pc' = "fatal"
    /\ todo' = {}
    /\ file' = <<>>
    /\ file_counter' = 0
    /\ metadata_r' = metadata_r_base
    /\ metadata_l1' = metadata_l1_base
    /\ UNCHANGED <<dataDir, renamedDir, backupsDir, log, calls>>

\* token read, folders made, log opened, Begin line, loop entered over the listing
StartupOk ==
    /\ Stopped
    /\ run < MaxRuns
    /\ run' = run + 1
    /\ api_token' = "token"
    /\ pc' = "loop"
    /\ log' = log \o <<LineOf(run + 1, "Begin", <<>>), LineOf(run + 1, "Looping", <<>>)>>
    /\ todo' = DOMAIN dataDir
    /\ file' = <<>>
    /\ file_counter' = 0
    /\ metadata_r' = metadata_r_base
    /\ metadata_l1' = metadata_l1_base
    /\ UNCHANGED <<dataDir, renamedDir, backupsDir, calls>>

\* ------------------------------------------------------------ the loop
FA_PREFIX == <<"F","A">>
TXT_UPPER == <<"T","X","T">>

\* file.split('.')[1] raises IndexError when the name holds no dot; python only
\* evaluates it when file.startswith('FA') holds
SplitRaises(f) == StartsWith(f, FA_PREFIX) /\ Len(Split(f, ".")) < 2

\* variant: the match test looks at the extension only
IsCandidate_ExtensionOnly(f) ==
    /\ Len(Split(f, ".")) >= 2
    /\ Split(f, ".")[2] = TXT_UPPER

\* file.startswith('FA') and file.split('.')[1] == 'TXT'
IsCandidate(f) ==
    /\ StartsWith(f, FA_PREFIX)
    /\ Len(Split(f, ".")) >= 2
    /\ Split(f, ".")[2] = TXT_UPPER

\* `continue`, or the end of the loop body: back to the for statement
NextEntry == pc' = "loop"

\* an exception no try block catches: the interpreter ends the run there
Uncaught == pc' = "crashed"

\* the loop takes an entry that passes the match test
MatchFound ==
    /\ pc = "loop"
    /\ \E f \in todo :
          /\ ~SplitRaises(f)
          /\ IsCandidate(f)
          /\ file' = f
          /\ todo' = todo \ {f}
          /\ log' = Append(log, Line("Match", f))
    /\ pc' = "backup"
    /\ UNCHANGED <<run, api_token, dataDir, renamedDir, backupsDir, file_counter,
                   metadata_r, metadata_l1, calls>>

\* the loop takes an entry that fails the match test: the else branch
NoMatch ==
    /\ pc = "loop"
    /\ \E f \in todo :
          /\ ~SplitRaises(f)
          /\ ~IsCandidate(f)
          /\ file' = f
          /\ todo' = todo \ {f}
          /\ log' = Append(log, Line("WarnNoMatch", f))
    /\ NextEntry
    /\ UNCHANGED <<run, api_token, dataDir, renamedDir, backupsDir, file_counter,
                   metadata_r, metadata_l1, calls>>

\* the loop takes an entry on which the match test itself raises IndexError
MatchRaises ==
    /\ pc = "loop"
    /\ \E f \in todo :
          /\ SplitRaises(f)
          /\ file' = f
          /\ todo' = todo \ {f}
    /\ Uncaught
    /\ UNCHANGED <<run, api_token, dataDir, renamedDir, backupsDir, log, file_counter,
                   metadata_r, metadata_l1, calls>>

\* the listing is exhausted: summary and End line
RunComplete ==
    /\ pc = "loop"
    /\ todo = {}
    /\ log' = log \o <<Line("Complete", file_counter), Line("End", <<>>)>>
    /\ pc' = "done"
    /\ UNCHANGED <<run, api_token, dataDir, renamedDir, backupsDir, todo, file,
                   file_counter, metadata_r, metadata_l1, calls>>

\* variant: the source file is moved into Backups after the cleanup, not copied
\* before the processing
Backup_Deferred ==
    /\ pc = "backup"
    /\ log' = Append(log, Line("Backup", file))
    /\ pc' = "stage"
    /\ UNCHANGED <<run, api_token, dataDir, renamedDir, backupsDir, todo, file,
                   file_counter, metadata_r, metadata_l1, calls>>

\* variant: the backup path is built from the renamed name
Backup_UnderRenamedName ==
    /\ pc = "backup"
    /\ backupsDir' = WriteFile(backupsDir, renamed_file, dataDir[file])
    /\ calls' = Append(calls, Call("copy_backup", renamed_file, NoMeta, TRUE))
    /\ log' = Append(log, Line("Backup", file))
    /\ pc' = "stage"
    /\ UNCHANGED <<run, api_token, dataDir, renamedDir, todo, file, file_counter,
                   metadata_r, metadata_l1>>

\* 1. backup copy of the Data file into Backups under its own name
Backup ==
    /\ pc = "backup"
    /\ backupsDir' = WriteFile(backupsDir, file, dataDir[file])
    /\ calls' = Append(calls, Call("copy_backup", file, NoMeta, TRUE))
    /\ log' = Append(log, Line("Backup", file))
    /\ pc' = "stage"
    /\ UNCHANGED <<run, api_token, dataDir, renamedDir, todo, file, file_counter,
                   metadata_r, metadata_l1>>

\* variant: the copy into Renamed is made whether or not the file is there
AlreadyStaged_Overwrites ==
    /\ pc = "stage"
    /\ Exists(renamedDir, renamed_file)
    /\ renamedDir' = WriteFile(renamedDir, renamed_file, dataDir[file])
    /\ calls' = Append(calls, Call("copy_renamed", renamed_file, NoMeta, TRUE))
    /\ log' = Append(log, Line("WarnStaged", renamed_file))
    /\ pc' = "convert"
    /\ UNCHANGED <<run, api_token, dataDir, backupsDir, todo, file, file_counter,
                   metadata_r, metadata_l1>>

\* variant: the counter is incremented at the end of every candidate's body
AlreadyStaged_Counted ==
    /\ pc = "stage"
    /\ Exists(renamedDir, renamed_file)
    /\ log' = Append(log, Line("WarnStaged", renamed_file))
    /\ file_counter' = file_counter + 1
    /\ NextEntry
    /\ UNCHANGED <<run, api_token, dataDir, renamedDir, backupsDir, todo, file,
                   metadata_r, metadata_l1, calls>>

\* 2. the renamed file is already in Renamed: warning, nothing else for this entry
AlreadyStaged ==
    /\ pc = "stage"
    /\ Exists(renamedDir, renamed_file)
    /\ log' = Append(log, Line("WarnStaged", renamed_file))
    /\ NextEntry
    /\ UNCHANGED <<run, api_token, dataDir, renamedDir, backupsDir, todo, file,
                   file_counter, metadata_r, metadata_l1, calls>>

\* 2. copy of the Data file into Renamed under the renamed name
Stage ==
    /\ pc = "stage"
    /\ ~Exists(renamedDir, renamed_file)
    /\ renamedDir' = WriteFile(renamedDir, renamed_file, dataDir[file])
    /\ calls' = Append(calls, Call("copy_renamed", renamed_file, NoMeta, TRUE))
    /\ log' = Append(log, Line("Staged", file))
    /\ pc' = "convert"
    /\ UNCHANGED <<run, api_token, dataDir, backupsDir, todo, file, file_counter,
                   metadata_r, metadata_l1>>

\* variant: the warning about the L1 file lacks its `continue`
AlreadyConverted_Converts ==
    /\ pc = "convert"
    /\ Exists(renamedDir, l1_file)
    /\ renamedDir' = WriteFile(renamedDir, l1_file,
                               Content(renamedDir[renamed_file].origin, "csv"))
    /\ calls' = calls \o <<Call("copy_l1", l1_file, NoMeta, TRUE),
                           Call("convert", l1_file, NoMeta, TRUE)>>
    /\ log' = log \o <<Line("WarnL1", l1_file), Line("Converted", file)>>
    /\ pc' = "upload_r"
    /\ UNCHANGED <<run, api_token, dataDir, backupsDir, todo, file, file_counter,
                   metadata_r, metadata_l1>>

\* 3. the L1 file is already in Renamed: warning and continue
AlreadyConverted ==
    /\ pc = "convert"
    /\ Exists(renamedDir, l1_file)
    /\ log' = Append(log, Line("WarnL1", l1_file))
    /\ NextEntry
    /\ UNCHANGED <<run, api_token, dataDir, renamedDir, backupsDir, todo, file,
                   file_counter, metadata_r, metadata_l1, calls>>

\* 3. the renamed file is copied to the L1 path and the R script rewrites it as CSV
ConvertOk ==
    /\ pc = "convert"
    /\ ~Exists(renamedDir, l1_file)
    /\ renamedDir' = WriteFile(renamedDir, l1_file,
                               Content(renamedDir[renamed_file].origin, "csv"))
    /\ calls' = calls \o <<Call("copy_l1", l1_file, NoMeta, TRUE),
                           Call("convert", l1_file, NoMeta, TRUE)>>
    /\ log' = Append(log, Line("Converted", file))
    /\ pc' = "upload_r"
    /\ UNCHANGED <<run, api_token, dataDir, backupsDir, todo, file, file_counter,
                   metadata_r, metadata_l1>>

\* variant: a failed conversion takes the staged files out of Renamed again
ConvertFails_Unstages ==
    /\ pc = "convert"
    /\ ~Exists(renamedDir, l1_file)
    /\ renamedDir' = RemoveFile(renamedDir, renamed_file)
    /\ calls' = calls \o <<Call("copy_l1", l1_file, NoMeta, TRUE),
                           Call("convert", l1_file, NoMeta, FALSE)>>
    /\ log' = Append(log, Line("ErrConvert", file))
    /\ NextEntry
    /\ UNCHANGED <<run, api_token, dataDir, backupsDir, todo, file, file_counter,
                   metadata_r, metadata_l1>>

\* variant: the except branch of the conversion lacks its `continue`
ConvertFails_NoContinue ==
    /\ pc = "convert"
    /\ ~Exists(renamedDir, l1_file)
    /\ renamedDir' = WriteFile(renamedDir, l1_file, renamedDir[renamed_file])
    /\ calls' = calls \o <<Call("copy_l1", l1_file, NoMeta, TRUE),
                           Call("convert", l1_file, NoMeta, FALSE)>>
    /\ log' = Append(log, Line("ErrConvert", file))
    /\ pc' = "upload_r"
    /\ UNCHANGED <<run, api_token, dataDir, backupsDir, todo, file, file_counter,
                   metadata_r, metadata_l1>>

\* 3. the renamed file is copied to the L1 path and the R script fails
ConvertFails ==
    /\ pc = "convert"
    /\ ~Exists(renamedDir, l1_file)
    /\ renamedDir' = WriteFile(renamedDir, l1_file, renamedDir[renamed_file])
    /\ calls' = calls \o <<Call("copy_l1", l1_file, NoMeta, TRUE),
                           Call("convert", l1_file, NoMeta, FALSE)>>
    /\ log' = Append(log, Line("ErrConvert", file))
    /\ NextEntry
    /\ UNCHANGED <<run, api_token, dataDir, backupsDir, todo, file, file_counter,
                   metadata_r, metadata_l1>>

\* variant: parent_filenames[] is set with setdefault, once per run
SetMetadataL1_ParentsOnce ==
    [metadata_l1 EXCEPT !.start_time = get_datetimes(file)[1],
                        !.end_time = get_datetimes(file)[2],
                        !.parent_filenames =
                            IF metadata_l1.parent_filenames = Unset
                            THEN <<renamed_file, SCRIPT_ZIP>>
                            ELSE metadata_l1.parent_filenames]

\* 4. the per-file fields both dicts carry once lines 163-168 have run
SetMetadataR == [metadata_r EXCEPT !.start_time = get_datetimes(file)[1],
                                   !.end_time = get_datetimes(file)[2]]
SetMetadataL1 == [metadata_l1 EXCEPT !.start_time = get_datetimes(file)[1],
                                     !.end_time = get_datetimes(file)[2],
                                     !.parent_filenames = <<renamed_file, SCRIPT_ZIP>>]

\* 4. metadata set, hp.upload of the renamed raw file returns
UploadRawOk ==
    /\ pc = "upload_r"
    /\ metadata_r' = SetMetadataR
    /\ metadata_l1' = SetMetadataL1
    /\ calls' = Append(calls, Call("upload", renamed_file, SetMetadataR, TRUE))
    /\ log' = Append(log, Line("UploadedR", renamed_file))
    /\ pc' = "upload_l1"
    /\ UNCHANGED <<run, api_token, dataDir, renamedDir, backupsDir, todo, file,
                   file_counter>>

\* variant: the raw upload has a try block of its own, without `continue`
UploadRawFails_NoContinue ==
    /\ pc = "upload_r"
    /\ metadata_r' = SetMetadataR
    /\ metadata_l1' = SetMetadataL1
    /\ calls' = Append(calls, Call("upload", renamed_file, SetMetadataR, FALSE))
    /\ log' = Append(log, Line("ErrUpload", file))
    /\ pc' = "upload_l1"
    /\ UNCHANGED <<run, api_token, dataDir, renamedDir, backupsDir, todo, file,
                   file_counter>>

\* 4. metadata set, hp.upload of the renamed raw file raises: error line, continue
UploadRawFails ==
    /\ pc = "upload_r"
    /\ metadata_r' = SetMetadataR
    /\ metadata_l1' = SetMetadataL1
    /\ calls' = Append(calls, Call("upload", renamed_file, SetMetadataR, FALSE))
    /\ log' = Append(log, Line("ErrUpload", file))
    /\ NextEntry
    /\ UNCHANGED <<run, api_token, dataDir, renamedDir, backupsDir, todo, file,
                   file_counter>>

\* 4. hp.upload of the L1 file returns
UploadL1Ok ==
    /\ pc = "upload_l1"
    /\ calls' = Append(calls, Call("upload", l1_file, metadata_l1, TRUE))
    /\ log' = Append(log, Line("UploadedL1", l1_file))
    /\ pc' = "rm_data"
    /\ UNCHANGED <<run, api_token, dataDir, renamedDir, backupsDir, todo, file,
                   file_counter, metadata_r, metadata_l1>>

\* variant: the except branch of the upload lacks its `continue`
UploadL1Fails_NoContinue ==
    /\ pc = "upload_l1"
    /\ calls' = Append(calls, Call("upload", l1_file, metadata_l1, FALSE))
    /\ log' = Append(log, Line("ErrUpload", file))
    /\ pc' = "rm_data"
    /\ UNCHANGED <<run, api_token, dataDir, renamedDir, backupsDir, todo, file,
                   file_counter, metadata_r, metadata_l1>>

\* 4. hp.upload of the L1 file raises: error line, continue
UploadL1Fails ==
    /\ pc = "upload_l1"
    /\ calls' = Append(calls, Call("upload", l1_file, metadata_l1, FALSE))
    /\ log' = Append(log, Line("ErrUpload", file))
    /\ NextEntry
    /\ UNCHANGED <<run, api_token, dataDir, renamedDir, backupsDir, todo, file,
                   file_counter, metadata_r, metadata_l1>>

\* variant: the source file is left in Data by the cleanup
RemoveDataOk_KeepsFile ==
    /\ pc = "rm_data"
    /\ Exists(dataDir, file)
    /\ calls' = Append(calls, Call("rm_data", file, NoMeta, TRUE))
    /\ pc' = "rm_renamed"
    /\ UNCHANGED <<run, api_token, dataDir, renamedDir, backupsDir, log, todo, file,
                   file_counter, metadata_r, metadata_l1>>

\* 5. os.remove(data_file_path) returns
RemoveDataOk ==
    /\ pc = "rm_data"
    /\ Exists(dataDir, file)
    /\ dataDir' = RemoveFile(dataDir, file)
    /\ calls' = Append(calls, Call("rm_data", file, NoMeta, TRUE))
    /\ pc' = "rm_renamed"
    /\ UNCHANGED <<run, api_token, renamedDir, backupsDir, log, todo, file,
                   file_counter, metadata_r, metadata_l1>>

\* 5. os.remove(data_file_path) raises OSError, outside any try block
RemoveDataRaises ==
    /\ pc = "rm_data"
    /\ calls' = Append(calls, Call("rm_data", file, NoMeta, FALSE))
    /\ Uncaught
    /\ UNCHANGED <<run, api_token, dataDir, renamedDir, backupsDir, log, todo, file,
                   file_counter, metadata_r, metadata_l1>>

\* 5. os.remove(renamed_file_path) returns
RemoveRenamedOk ==
    /\ pc = "rm_renamed"
    /\ Exists(renamedDir, renamed_file)
    /\ renamedDir' = RemoveFile(renamedDir, renamed_file)
    /\ calls' = Append(calls, Call("rm_renamed", renamed_file, NoMeta, TRUE))
    /\ pc' = "rm_l1"
    /\ UNCHANGED <<run, api_token, dataDir, backupsDir, log, todo, file,
                   file_counter, metadata_r, metadata_l1>>

\* 5. os.remove(renamed_file_path) raises OSError, outside any try block
RemoveRenamedRaises ==
    /\ pc = "rm_renamed"
    /\ calls' = Append(calls, Call("rm_renamed", renamed_file, NoMeta, FALSE))
    /\ Uncaught
    /\ UNCHANGED <<run, api_token, dataDir, renamedDir, backupsDir, log, todo, file,
                   file_counter, metadata_r, metadata_l1>>

\* 5. os.remove(l1_file_path) returns: cleaned line, counter incremented
RemoveL1Ok ==
    /\ pc = "rm_l1"
    /\ Exists(renamedDir, l1_file)
    /\ renamedDir' = RemoveFile(renamedDir, l1_file)
    /\ calls' = Append(calls, Call("rm_l1", l1_file, NoMeta, TRUE))
    /\ log' = Append(log, Line("Cleaned", file))
    /\ file_counter' = file_counter + 1
    /\ NextEntry
    /\ UNCHANGED <<run, api_token, dataDir, backupsDir, todo, file,
                   metadata_r, metadata_l1>>

\* 5. os.remove(l1_file_path) raises OSError, outside any try block
RemoveL1Raises ==
    /\ pc = "rm_l1"
    /\ calls' = Append(calls, Call("rm_l1", l1_file, NoMeta, FALSE))
    /\ Uncaught
    /\ UNCHANGED <<run, api_token, dataDir, renamedDir, backupsDir, log, todo, file,
                   file_counter, metadata_r, metadata_l1>>

Next ==
    \/ StartupNoToken \/ StartupOk
    \/ MatchFound \/ NoMatch \/ MatchRaises \/ RunComplete
    \/ Backup \/ AlreadyStaged \/ Stage
    \/ AlreadyConverted \/ ConvertOk \/ ConvertFails
    \/ UploadRawOk \/ UploadRawFails \/ UploadL1Ok \/ UploadL1Fails
    \/ RemoveDataOk \/ RemoveDataRaises
    \/ RemoveRenamedOk \/ RemoveRenamedRaises
    \/ RemoveL1Ok \/ RemoveL1Raises

Spec == Init /\ [][Next]_vars

----------------------------------------------------------------------------
\* The filename codec on a family of names: a Data folder that holds one file
\* named FA, then up to six digits, then .TXT.  Six digits is the documented
\* FADDMMYY.TXT; fewer leave the slices at offsets 2..8 short or reaching into
\* the extension.  The digits chosen give days and months no calendar has.
\* Next to these, the folders with one file of Names and the folder with the
\* two names that rename alike.
Digits == {"0", "1", "9"}

RECURSIVE DigitStrings(_)
DigitStrings(n) ==
    IF n = 0 THEN {<<>>}
    ELSE {Append(b, d) : b \in DigitStrings(n - 1), d \in Digits}

CodecNames ==
    {FA_PREFIX \o b \o <<".">> \o TXT_UPPER : b \in UNION {DigitStrings(n) : n \in 0..6}}

CodecFolders == {{f} : f \in CodecNames \cup Names} \cup {{FA150518, FA150518bak}}

InitCodec ==
    /\ run = 0
    /\ pc = "idle"
    /\ api_token = "unread"
    /\ \E S \in CodecFolders : dataDir = [f \in S |-> Content(f, "txt")]
    /\ renamedDir = EmptyDir
    /\ backupsDir = EmptyDir
    /\ log = <<>>
    /\ todo = {}
    /\ file = <<>>
    /\ file_counter = 0
    /\ metadata_r = metadata_r_base
    /\ metadata_l1 = metadata_l1_base
    /\ calls = <<>>

SpecCodec == InitCodec /\ [][Next]_vars

----------------------------------------------------------------------------
\* Reading the history

CallIdx == 1..Len(calls)
LogIdx == 1..Len(log)

IsUpload(i) == calls[i].op = "upload"
IsRawUpload(i) == IsUpload(i) /\ calls[i].meta.type = "RAW"
IsL1Upload(i) == IsUpload(i) /\ calls[i].meta.type = "PROCESSED"
IsRemove(i) == calls[i].op \in {"rm_data", "rm_renamed", "rm_l1"}
SameCandidate(i, j) == calls[i].cand = calls[j].cand /\ calls[i].run = calls[j].run

\* candidate f had op done successfully in run r
Did(op, f, r) ==
    \E i \in CallIdx : calls[i].op = op /\ calls[i].cand = f /\ calls[i].run = r /\ calls[i].ok

\* both uploads of candidate f returned in run r, the raw one first
BothUploaded(f, r) ==
    \E j \in CallIdx :
        /\ calls[j].cand = f /\ calls[j].run = r /\ IsRawUpload(j) /\ calls[j].ok
        /\ calls[j].path = rename_file(f)
        /\ \E k \in (j + 1)..Len(calls) :
              /\ calls[k].cand = f /\ calls[k].run = r /\ IsL1Upload(k) /\ calls[k].ok
              /\ calls[k].path = rename_csv_file(rename_file(f))

\* the candidates that reached Cleaned in run r: both uploads returned and the
\* three local files were removed
CleanedIn(r) ==
    {f \in Names : /\ Did("rm_l1", f, r)
                   /\ Did("rm_renamed", f, r)
                   /\ Did("rm_data", f, r)
                   /\ BothUploaded(f, r)}

\* the lines the current run has written so far
RunLogIdx == {i \in LogIdx : log[i].run = run}
Logged(kind, arg) == \E i \in RunLogIdx : log[i].kind = kind /\ log[i].arg = arg

----------------------------------------------------------------------------
\* C1: a step removes a file from Data or Renamed only if the file is an artifact
\* of the candidate being processed and both uploads of that candidate (raw,
\* then L1) have returned successfully in this run; so after a raw upload that
\* succeeded and an L1 upload that failed the source and the staged file stay.
C1_DeleteOnlyAfterBothUploads ==
    [][ /\ \A f \in (DOMAIN dataDir) \ (DOMAIN dataDir') :
              f = file /\ BothUploaded(file, run)
        /\ \A p \in (DOMAIN renamedDir) \ (DOMAIN renamedDir') :
              p \in {renamed_file, l1_file} /\ BothUploaded(file, run)
      ]_vars

\* the second upload of a candidate has failed after the first succeeded, and
\* the source and the staged raw file are both still there
C1_Witness ==
    /\ pc = "loop"
    /\ Len(calls) >= 2
    /\ IsL1Upload(Len(calls)) /\ ~calls[Len(calls)].ok
    /\ IsRawUpload(Len(calls) - 1) /\ calls[Len(calls) - 1].ok
    /\ calls[Len(calls)].cand = file
    /\ Exists(dataDir, file)
    /\ Exists(renamedDir, renamed_file)

\* C2: once the converter has failed for a candidate in the current run, no
\* upload and no removal is ever called for that candidate in that run, its
\* source file and its staged raw file exist, and the step in which the
\* converter fails returns to the for statement (the run goes on).
ConvertFailedAt(i) == calls[i].op = "convert" /\ ~calls[i].ok /\ calls[i].run = run

C2_ConvertFailureRetainsFiles ==
    /\ \A i \in CallIdx : ConvertFailedAt(i) =>
          /\ \A j \in CallIdx : SameCandidate(i, j) => ~IsUpload(j) /\ ~IsRemove(j)
          /\ Exists(dataDir, calls[i].cand)
          /\ Exists(renamedDir, rename_file(calls[i].cand))
    /\ (Len(calls) > 0 /\ ConvertFailedAt(Len(calls)) /\ calls[Len(calls)].cand = file)
          => pc \in {"loop", "done"}

\* the converter failed for one candidate and the run went on to finish
C2_Witness ==
    /\ pc = "done"
    /\ \E i \in CallIdx : ConvertFailedAt(i) /\ Exists(dataDir, calls[i].cand)
    /\ \E f \in Names : Logged("Cleaned", f)

\* C3: an L1 upload is only ever called after the raw upload of the same
\* candidate returned successfully in the same run; once a raw upload has failed,
\* no further call is made for that candidate in that run (no L1 upload, no
\* removal), the candidate is not logged as cleaned, and its source, staged raw
\* and staged L1 files exist.
RawUploadFailedAt(i) == IsRawUpload(i) /\ ~calls[i].ok /\ calls[i].run = run

C3_RawBeforeDerived ==
    /\ \A k \in CallIdx : IsL1Upload(k) =>
          \E j \in CallIdx : j < k /\ SameCandidate(j, k) /\ IsRawUpload(j) /\ calls[j].ok
    /\ \A i \in CallIdx : RawUploadFailedAt(i) =>
          /\ \A k \in CallIdx : (k > i /\ SameCandidate(i, k)) => FALSE
          /\ ~Logged("Cleaned", calls[i].cand)
          /\ calls[i].cand \notin CleanedIn(run)
          /\ Exists(dataDir, calls[i].cand)
          /\ Exists(renamedDir, rename_file(calls[i].cand))
          /\ Exists(renamedDir, rename_csv_file(rename_file(calls[i].cand)))

\* a raw upload failed for one candidate while another candidate of the same
\* run went through both uploads
C3_Witness ==
    /\ pc = "done"
    /\ \E i \in CallIdx : RawUploadFailedAt(i)
    /\ \E k \in CallIdx : IsL1Upload(k) /\ calls[k].ok /\ calls[k].run = run

\* C4 as stated: when a run that follows another is complete, every file that
\* reached Cleaned in the run before has no upload call in this run and has an
\* already-exists warning (staged or L1) logged for it in this run.
C4_SecondRunReportsSkip ==
    (run >= 2 /\ pc = "done") =>
        \A f \in CleanedIn(run - 1) :
            /\ \A i \in CallIdx : (calls[i].run = run /\ calls[i].cand = f) => ~IsUpload(i)
            /\ \/ Logged("WarnStaged", rename_file(f))
               \/ Logged("WarnL1", rename_csv_file(rename_file(f)))

\* C4 amended: every file that reached Cleaned in the run before is gone from
\* Data, so this run does not list it: no call of any kind (upload included) is
\* made for it and no match or no-match line is logged for it.
C4_SecondRunMakesNoUpload ==
    run >= 2 =>
        \A f \in CleanedIn(run - 1) :
            /\ ~Exists(dataDir, f)
            /\ \A i \in CallIdx : calls[i].run = run => calls[i].cand # f
            /\ ~Logged("Match", f)
            /\ ~Logged("WarnNoMatch", f)

\* a second run has completed after a first run that cleaned one file and left
\* another one in Data
C4_Witness ==
    /\ run = 2
    /\ pc = "done"
    /\ CleanedIn(1) # {}
    /\ \E f \in DOMAIN dataDir : IsCandidate(f)

\* C5 as stated: a run that got past startup never stops anywhere but at the end
\* of the script, with every listed entry taken by the loop.
C5_StartedRunReachesEnd ==
    (api_token = "token" /\ Stopped) => (pc = "done" /\ todo = {})

\* C6: a staging copy is only made after the backup copy of the same candidate
\* in the same run; and every candidate the run has matched and taken past the
\* backup step, however it ended, has a file in Backups under its original name
\* whose content is that of the source file.
PastBackup(f) == Logged("Match", f) /\ ~(pc = "backup" /\ file = f)

C6_BackupBeforeStaging ==
    /\ \A i \in CallIdx : calls[i].op = "copy_renamed" =>
          \E j \in CallIdx : /\ j < i
                             /\ SameCandidate(i, j)
                             /\ calls[j].op = "copy_backup"
                             /\ calls[j].path = calls[i].cand
    /\ \A f \in Names : PastBackup(f) =>
          /\ Did("copy_backup", f, run)
          /\ Exists(backupsDir, f)
          /\ backupsDir[f] = Content(f, "txt")
          /\ Exists(dataDir, f) => backupsDir[f] = dataDir[f]

\* a candidate was skipped because its renamed file was already staged, and its
\* backup was made all the same
C6_Witness ==
    /\ pc = "loop"
    /\ Len(log) > 0
    /\ log[Len(log)].kind = "WarnStaged"
    /\ Exists(backupsDir, file)
    /\ backupsDir[file] = dataDir[file]

\* C7: no step ever changes or removes a Data file whose name does not start
\* with FA, puts a file of that name in Backups, stages a copy of it in Renamed,
\* or makes any call (copy, convert, upload, remove) for it.
C7_NonPrefixedUntouched ==
    [][ \A f \in Names : ~StartsWith(f, FA_PREFIX) =>
            /\ Exists(dataDir, f) => (Exists(dataDir', f) /\ dataDir'[f] = dataDir[f])
            /\ ~Exists(backupsDir', f)
            /\ \A p \in DOMAIN renamedDir' : renamedDir'[p].origin # f
            /\ \A i \in 1..Len(calls') : calls'[i].cand # f
      ]_vars

\* a run has completed over a folder holding XY150518.TXT next to a candidate
\* that was cleaned
C7_Witness ==
    /\ pc = "done"
    /\ Logged("WarnNoMatch", XY150518)
    /\ Exists(dataDir, XY150518)
    /\ CleanedIn(run) # {}

\* C8: file_counter is at every point of a run the number of candidates that
\* reached Cleaned in it, and the summary line of a completed run quotes that
\* number.
C8_SummaryCountsCleaned ==
    /\ api_token = "token" => file_counter = Cardinality(CleanedIn(run))
    /\ pc = "done" =>
          /\ log[Len(log) - 1].kind = "Complete"
          /\ log[Len(log) - 1].arg = Cardinality(CleanedIn(run))

\* a run has completed with one candidate cleaned and another one failed or
\* skipped
C8_Witness ==
    /\ pc = "done"
    /\ file_counter = 1
    /\ \E f \in Names : Logged("Match", f) /\ f \notin CleanedIn(run)

\* C9: a run that finds no token in the environment stops at once: the step
\* that reads it ends the run and changes no folder, makes no call and writes
\* nothing to the log, and no later step of that run exists.
C9_NoTokenNoProcessing ==
    [][ api_token' = "unset" =>
            /\ pc' = "fatal"
            /\ UNCHANGED <<dataDir, renamedDir, backupsDir, calls, log>>
      ]_vars

\* a run was started without a token over a folder holding a candidate
C9_Witness ==
    /\ pc = "fatal"
    /\ api_token = "unset"
    /\ \E f \in DOMAIN dataDir : IsCandidate(f)
    /\ \A i \in CallIdx : calls[i].run # run

\* C10 as stated: once the cleanup of a candidate is over, all three removals
\* have been attempted for it.
CleanupOver(i) == calls[i].run < run \/ calls[i].cand # file
                  \/ pc \notin {"rm_renamed", "rm_l1"}

C10_AllDeletionsAttempted ==
    \A i \in CallIdx : (calls[i].op = "rm_data" /\ CleanupOver(i)) =>
        /\ \E j \in CallIdx : SameCandidate(i, j) /\ calls[j].op = "rm_renamed"
        /\ \E k \in CallIdx : SameCandidate(i, k) /\ calls[k].op = "rm_l1"

\* C11 as stated: a staging copy is only ever made for a name that starts with
\* FA and is long enough for the slices at offsets 2..8 (eight characters).
C11_InvalidFormatNeverStaged ==
    \A i \in CallIdx : calls[i].op = "copy_renamed" =>
        /\ StartsWith(calls[i].cand, FA_PREFIX)
        /\ Len(calls[i].cand) >= 8

\* the documented form FADDMMYY.TXT and the names the convention gives for it
AllDigits == {"0", "1", "2", "3", "4", "5", "6", "7", "8", "9"}
L1_PREFIX == <<"F","A","C","E","_","A","U","T","O","_","R","A","_",
               "N","E","U","T","R","O","N","_","L","1","_">>

WellFormed(f) ==
    /\ Len(f) = 12
    /\ StartsWith(f, FA_PREFIX)
    /\ SubSeq(f, 9, 12) = <<".","T","X","T">>
    /\ \A i \in 3..8 : f[i] \in AllDigits

ExpectedDate(f) == <<"2", "0", f[7], f[8], f[5], f[6], f[3], f[4]>>
ExpectedRaw(f) == R_PREFIX \o ExpectedDate(f) \o TXT_EXT
ExpectedL1(f) == L1_PREFIX \o ExpectedDate(f) \o CSV_EXT
ExpectedDay(f) == <<"2", "0", f[7], f[8], "-", f[5], f[6], "-", f[3], f[4]>>

\* the example of the convention: FA150518.TXT is 15 May 2018
C12_Example ==
    /\ rename_file(FA150518) =
          R_PREFIX \o <<"2","0","1","8","0","5","1","5">> \o TXT_EXT
    /\ rename_csv_file(rename_file(FA150518)) =
          L1_PREFIX \o <<"2","0","1","8","0","5","1","5">> \o CSV_EXT
    /\ get_datetimes(FA150518) =
          << <<"2","0","1","8","-","0","5","-","1","5">> \o DAY_START,
             <<"2","0","1","8","-","0","5","-","1","5">> \o DAY_END >>

\* C12: for a raw name FA DD MM YY .TXT with six digits, every path and every
\* metadata field the run derives from it is the one the convention gives:
\* FACE_AUTO_RA_NEUTRON_R_20YYMMDD.txt, FACE_AUTO_RA_NEUTRON_L1_20YYMMDD.csv,
\* and 20YY-MM-DD 00:00:00 to 20YY-MM-DD 23:59:59, whatever the digits are; and
\* FA150518.TXT gives the names and the date range of 2018-05-15.
C12_CanonicalNames ==
    /\ C12_Example
    /\ \A i \in CallIdx : WellFormed(calls[i].cand) =>
          LET c == calls[i]
          IN /\ c.op = "copy_renamed" => c.path = ExpectedRaw(c.cand)
             /\ c.op \in {"copy_l1", "convert", "rm_l1"} => c.path = ExpectedL1(c.cand)
             /\ IsRawUpload(i) =>
                   /\ c.path = ExpectedRaw(c.cand)
                   /\ c.meta.start_time = ExpectedDay(c.cand) \o DAY_START
                   /\ c.meta.end_time = ExpectedDay(c.cand) \o DAY_END
             /\ IsL1Upload(i) =>
                   /\ c.path = ExpectedL1(c.cand)
                   /\ c.meta.start_time = ExpectedDay(c.cand) \o DAY_START
                   /\ c.meta.end_time = ExpectedDay(c.cand) \o DAY_END
                   /\ c.meta.parent_filenames[1] = ExpectedRaw(c.cand)

\* both uploads went through for a name whose day and month no calendar has
C12_Witness ==
    \E i \in CallIdx :
        /\ IsL1Upload(i) /\ calls[i].ok
        /\ WellFormed(calls[i].cand)
        /\ calls[i].cand[3] = "9" /\ calls[i].cand[5] = "9"

\* C13: the step a candidate takes at the staging point when its renamed name is
\* already in Renamed changes nothing in Renamed or Data and makes no call; it
\* writes the already-exists warning and returns to the for statement, and the
\* entry is not in what is left of the listing, so the run does not come back
\* to it.
C13_AlreadyStagedIsNoOp ==
    [][ (pc = "stage" /\ Exists(renamedDir, renamed_file)) =>
            /\ renamedDir' = renamedDir
            /\ dataDir' = dataDir
            /\ calls' = calls
            /\ log' = Append(log, Line("WarnStaged", renamed_file))
            /\ pc' = "loop"
            /\ file' = file
            /\ file \notin todo'
      ]_vars

\* a candidate has just been skipped at the staging point, and the staged file
\* of that name is still the copy another Data file left there
C13_Witness ==
    /\ pc = "loop"
    /\ Len(log) > 0
    /\ log[Len(log)] = Line("WarnStaged", renamed_file)
    /\ Exists(renamedDir, renamed_file)
    /\ renamedDir[renamed_file].origin # file
    /\ Exists(dataDir, file)

\* C14: the step a freshly staged candidate takes at the conversion point when
\* its L1 name is already in Renamed invokes no converter and makes no other
\* call, leaves Renamed (the existing L1 file included) and Data as they are,
\* writes a warning (not an error) and returns to the for statement.
C14_AlreadyConvertedIsSkip ==
    [][ (pc = "convert" /\ Exists(renamedDir, l1_file)) =>
            /\ renamedDir' = renamedDir
            /\ dataDir' = dataDir
            /\ calls' = calls
            /\ log' = Append(log, Line("WarnL1", l1_file))
            /\ pc' = "loop"
            /\ file' = file
            /\ file \notin todo'
            /\ file_counter' = file_counter
      ]_vars

\* a freshly staged candidate has just been skipped at the conversion point: its
\* own staged copy and the L1 file an earlier candidate left are both there
C14_Witness ==
    /\ pc = "loop"
    /\ Len(log) > 0
    /\ log[Len(log)] = Line("WarnL1", l1_file)
    /\ Exists(renamedDir, l1_file)
    /\ renamedDir[l1_file].origin # file
    /\ Exists(renamedDir, renamed_file)
    /\ renamedDir[renamed_file].origin = file
    /\ Exists(dataDir, file)

\* C15 as stated: after a conversion that failed in the current run, no file is
\* at the L1 path the converter was given (the path did not exist before the
\* conversion step, or the step would have been skipped).
C15_NoDerivedFileAfterFailure ==
    \A i \in CallIdx : ConvertFailedAt(i) => ~Exists(renamedDir, calls[i].path)

\* what the codec derives from each name of Names
DerivedOf ==
    [f \in Names |-> [raw |-> rename_file(f),
                      l1 |-> rename_csv_file(rename_file(f)),
                      range |-> get_datetimes(f)]]

\* C16: every upload call carries the metadata of the candidate it is made for:
\* start_time and end_time are the date range of that candidate's raw name, a
\* raw upload carries no parent_filenames, and an L1 upload's parent_filenames
\* names that candidate's renamed raw file (and the conversion script's zip).
C16_UploadMetadataIsCurrent ==
    \A i \in CallIdx : IsUpload(i) =>
        LET c == calls[i]
            d == DerivedOf[c.cand]
        IN /\ c.meta.start_time = d.range[1]
           /\ c.meta.end_time = d.range[2]
           /\ IsRawUpload(i) =>
                 /\ c.meta.parent_filenames = Unset
                 /\ c.path = d.raw
           /\ IsL1Upload(i) =>
                 /\ c.meta.parent_filenames = <<d.raw, SCRIPT_ZIP>>
                 /\ c.path = d.l1

\* two candidates with different dates had their L1 files uploaded in one run,
\* the second after the first
C16_Witness ==
    \E i, j \in CallIdx :
        /\ i < j
        /\ IsL1Upload(i) /\ IsL1Upload(j)
        /\ calls[i].run = calls[j].run
        /\ rename_file(calls[i].cand) # rename_file(calls[j].cand)

\* C17: no step takes a file out of Backups or changes one that is there; and
\* after every step, each file some run has matched (its processing begun) is in
\* Data under its name with its content, or in Backups under its name with that
\* content.
Matched(f) == \E i \in LogIdx : log[i].kind = "Match" /\ log[i].arg = f

C17_NoRawDataLost ==
    [][ /\ \A f \in DOMAIN backupsDir :
              Exists(backupsDir', f) /\ backupsDir'[f] = backupsDir[f]
        /\ \A f \in Names : Matched(f)' =>
              \/ Exists(dataDir', f) /\ dataDir'[f] = Content(f, "txt")
              \/ Exists(backupsDir', f) /\ backupsDir'[f] = Content(f, "txt")
      ]_vars

\* a candidate was cleaned out of Data and its content is in Backups
C17_Witness ==
    \E f \in CleanedIn(run) :
        /\ ~Exists(dataDir, f)
        /\ Exists(backupsDir, f)
        /\ backupsDir[f] = Content(f, "txt")

\* C18 as stated: two raw uploads of one run under the same renamed name are
\* uploads of the same Data entry.
C18_OneUploadPerCanonicalName ==
    \A i, j \in CallIdx :
        (/\ IsRawUpload(i) /\ IsRawUpload(j)
         /\ calls[i].ok /\ calls[j].ok
         /\ calls[i].run = calls[j].run
         /\ calls[i].path = calls[j].path) => calls[i].cand = calls[j].cand

\* C19: a candidate whose conversion or upload failed in an earlier run is still
\* in Data with its renamed file in Renamed; in the runs after that one the only
\* call ever made for it is the backup copy (no staging, no converter, no upload,
\* no removal), it is not among the cleaned, and a later run that completes has
\* logged the already-staged warning for its renamed name.
FailedEarlierAt(i) ==
    /\ ~calls[i].ok
    /\ calls[i].op \in {"convert", "upload"}
    /\ calls[i].run < run

C19_FailedNeverAdvanced ==
    \A i \in CallIdx : FailedEarlierAt(i) =>
        LET f == calls[i].cand
        IN /\ Exists(dataDir, f)
           /\ Exists(renamedDir, rename_file(f))
           /\ \A j \in (i + 1)..Len(calls) :
                 (calls[j].cand = f /\ calls[j].run > calls[i].run)
                     => calls[j].op = "copy_backup"
           /\ f \notin CleanedIn(run)
           /\ pc = "done" => Logged("WarnStaged", rename_file(f))

\* a run has completed after a run in which a candidate failed, and has skipped
\* that candidate as already staged
C19_Witness ==
    /\ run = 2
    /\ pc = "done"
    /\ \E i \in CallIdx :
          /\ FailedEarlierAt(i)
          /\ Logged("Match", calls[i].cand)
          /\ Logged("WarnStaged", rename_file(calls[i].cand))
====
